---- MODULE Spec2Model ----
(***************************************************************************)
(* State-machine model of e_calculator.CalculateE                          *)
(* (src/e_calculator/e_calculator.py).                                     *)
(*                                                                         *)
(* Real numbers are exact rationals held as integers in ticks of 1/Scale.  *)
(* Python's None is the empty sequence for the list-valued attributes      *)
(* (self.chain, self.a_array, self.posterior are never empty lists: the    *)
(* code stores at least one entry in each) and 0 for self.ntrails, which   *)
(* only ever holds a positive integer.                                     *)
(*                                                                         *)
(* The observation set self.data is random (np.random.standard_normal);    *)
(* it enters the program only through calculate_posterior, so a data set   *)
(* is represented by the posterior values it induces on the cells of the   *)
(* parameter axis. The posterior at a = 1 is 0 for every data set, because *)
(* Na = sqrt(log(1)/(2*pi)) = 0.                                           *)
(***************************************************************************)
EXTENDS Integers, Sequences, FiniteSets, TLC

\* ------------------------------------------------------------------ bounds
\* largest trial count offered to run_mcmc
MaxTrials == 2
\* largest point count offered to uniformly_sample_space
MaxPoints == 3
\* run_mcmc is offered only while the chain stays within this length
MaxChain == 3
\* posterior values range over 0..MaxP
MaxP == 2
\* np.random.uniform(0, 1) is drawn from {0, 1/UDen, ..., (UDen-1)/UDen}
UDen == 2

\* --------------------------------------------------------- program constants
\* _check_inputs: a_min > 1
MinA == 1
\* metropolis_hastings: np.random.uniform(1, 10, size=1)
PropLow == 1
PropHigh == 10

RECURSIVE Fact(_)
Fact(n) == IF n <= 1 THEN 1 ELSE n * Fact(n - 1)

\* ticks per unit: every point np.linspace produces for up to MaxPoints points
\* between integer end points is a whole number of ticks
Scale == Fact(MaxPoints - 1)

None == <<>>
Unset == 0

\* ------------------------------------------------------------------ inputs
\* values offered to run_mcmc for a_min and for a_max (in units)
AMinInputs == {1, 2, 11}
AMaxInputs == {2, 12}

\* values offered to uniformly_sample_space for a_min and for a_max (in units)
GridMinInputs == {1, 2}
GridMaxInputs == {2, 12}

\* values offered for ntrials: the Python ints -1..max and the float 1.0
NTrialInputs(max) ==
    {[isint |-> TRUE, val |-> v] : v \in (-1)..max}
        \cup {[isint |-> FALSE, val |-> 1]}

NoTrials == [isint |-> TRUE, val |-> 0]

\* the sample points the random source can return (in ticks)
Points == {1 * Scale, 3 * Scale, 11 * Scale}

\* np.random.uniform(low, high): a draw from the half-open interval [low, high)
uniform(low, high) == {p \in Points : low <= p /\ p < high}

\* np.random.uniform(0, 1): the numerator of a draw k/UDen from [0, 1)
uniform01 == 0..(UDen - 1)

\* the cells of the parameter axis on which a data set fixes the posterior
Cells == {1, 2}
Cell(a) == IF a <= PropHigh * Scale THEN 1 ELSE 2

\* _generate_data: the data sets np.random.standard_normal can produce
generate_data == [Cells -> 0..MaxP]

VARIABLES
    data,            \* self.data
    a_array,         \* self.a_array
    posterior,       \* self.posterior
    chain,           \* self.chain
    ntrails,         \* self.ntrails (the attribute the two samplers write)
    pc,              \* "idle", or "loop" inside metropolis_hastings
    call,            \* the public call in progress or last made, with its arguments
    result,          \* how the last finished call ended
    chain_in,        \* self.chain as it was when the call in `call` was entered
    a0,              \* locals of metropolis_hastings
    a_current,
    prob_a_current,
    trial_num,
    lchain,          \* the local list `chain`
    a_trial,
    prob_a_trial,
    acceptance_prob,
    u

persistent == <<data, a_array, posterior, chain, ntrails>>
locals == <<a0, a_current, prob_a_current, trial_num, lchain, a_trial,
            prob_a_trial, acceptance_prob, u>>
vars == <<data, a_array, posterior, chain, ntrails, pc, call, result, chain_in,
          a0, a_current, prob_a_current, trial_num, lchain, a_trial,
          prob_a_trial, acceptance_prob, u>>

\* ------------------------------------------------------------ pure functions
\* calculate_posterior: np.product(Na * a**(-(data**2)/2)), Na = sqrt(log(a)/(2 pi))
calculate_posterior(a) == IF a = 1 * Scale THEN 0 ELSE data[Cell(a)]

\* a float: a finite non-negative rational n/d, inf or nan
Num(n, d) == [kind |-> "num", n |-> n, d |-> d]
Inf == [kind |-> "inf", n |-> 0, d |-> 0]
NaN == [kind |-> "nan", n |-> 0, d |-> 0]

\* numpy float64 division x / y: a zero divisor gives inf or nan (with a
\* RuntimeWarning), never an exception
Divide(x, y) ==
    IF y = 0 THEN (IF x = 0 THEN NaN ELSE Inf) ELSE Num(x, y)

\* Python min(1, r): r when r < 1, else the first argument 1 (nan < 1 is False)
Min1(r) == IF r.kind = "num" /\ r.n < r.d THEN r ELSE Num(1, 1)

\* u <= acceptance_prob, u = k/UDen
Accepts(k, r) == k * r.d <= r.n * UDen

\* check_inputs with the first assert written a_min >= 1
check_inputs_weak(a_min, a_max, ntrials) ==
    IF ~(a_min >= MinA * Scale) THEN "AssertionError: a must be greater than 1"
    ELSE IF ~(a_min < a_max) THEN "AssertionError"
    ELSE IF ~(ntrials.val > 0 /\ ntrials.isint)
         THEN "AssertionError: ntrails must be a positive integer"
    ELSE "ok"

\* _check_inputs: the three asserts, in order; "ok" when all pass, else the
\* AssertionError of the first that fails
check_inputs(a_min, a_max, ntrials) ==
    IF ~(a_min > MinA * Scale) THEN "AssertionError: a must be greater than 1"
    ELSE IF ~(a_min < a_max) THEN "AssertionError"
    ELSE IF ~(ntrials.val > 0 /\ ntrials.isint)
         THEN "AssertionError: ntrails must be a positive integer"
    ELSE "ok"

AssertionErrors ==
    {"AssertionError: a must be greater than 1", "AssertionError",
     "AssertionError: ntrails must be a positive integer"}

\* linspace without its end point (np.linspace(..., endpoint=False))
linspace_open(a_min, a_max, n) ==
    [k \in 1..n |-> a_min + ((k - 1) * (a_max - a_min)) \div n]

\* np.linspace(a_min, a_max, n): n points, the first a_min, step (a_max-a_min)/(n-1)
linspace(a_min, a_max, n) ==
    [k \in 1..n |->
        IF n = 1 THEN a_min ELSE a_min + ((k - 1) * (a_max - a_min)) \div (n - 1)]

Call(op, a_min, a_max, ntrials, mcmc) ==
    [op |-> op, a_min |-> a_min, a_max |-> a_max, ntrials |-> ntrials, mcmc |-> mcmc]

ClearLocals ==
    /\ a0' = Unset
    /\ a_current' = Unset
    /\ prob_a_current' = Unset
    /\ trial_num' = Unset
    /\ lchain' = None
    /\ a_trial' = Unset
    /\ prob_a_trial' = Unset
    /\ acceptance_prob' = Num(0, 1)
    /\ u' = Unset

\* -------------------------------------------------------------------- Init
\* __init__
Init ==
    /\ data \in generate_data
    /\ a_array = None
    /\ posterior = None
    /\ chain = None
    /\ ntrails = Unset
    /\ pc = "idle"
    /\ call = Call("__init__", 0, 0, NoTrials, FALSE)
    /\ result = "ok"
    /\ chain_in = None
    /\ a0 = Unset
    /\ a_current = Unset
    /\ prob_a_current = Unset
    /\ trial_num = Unset
    /\ lchain = None
    /\ a_trial = Unset
    /\ prob_a_trial = Unset
    /\ acceptance_prob = Num(0, 1)
    /\ u = Unset

\* ----------------------------------------------------------------- actions
\* a public call whose _check_inputs raises: the exception leaves the method
\* at its first statement (the arguments die with the frame)
Rejected(op, a_min, a_max, ntrials) ==
    /\ check_inputs(a_min, a_max, ntrials) # "ok"
    /\ call' = Call(op, 0, 0, NoTrials, FALSE)
    /\ result' = check_inputs(a_min, a_max, ntrials)
    /\ chain_in' = chain
    /\ UNCHANGED <<persistent, pc, locals>>

\* SampleGrid that also resets the chain
SampleGridResets(a_min, a_max, ntrials) ==
    /\ check_inputs(a_min, a_max, ntrials) = "ok"
    /\ ntrails' = ntrials.val
    /\ a_array' = linspace(a_min, a_max, ntrials.val)
    /\ posterior' = [k \in 1..ntrials.val |-> calculate_posterior(a_array'[k])]
    /\ call' = Call("uniformly_sample_space", a_min, a_max, ntrials, FALSE)
    /\ result' = "ok"
    /\ chain_in' = chain
    /\ chain' = None
    /\ UNCHANGED <<data, pc, locals>>

\* uniformly_sample_space with inputs that pass _check_inputs
SampleGrid(a_min, a_max, ntrials) ==
    /\ check_inputs(a_min, a_max, ntrials) = "ok"
    /\ ntrails' = ntrials.val
    /\ a_array' = linspace(a_min, a_max, ntrials.val)
    /\ posterior' = [k \in 1..ntrials.val |-> calculate_posterior(a_array'[k])]
    /\ call' = Call("uniformly_sample_space", a_min, a_max, ntrials, FALSE)
    /\ result' = "ok"
    /\ chain_in' = chain
    /\ UNCHANGED <<data, chain, pc, locals>>

uniformly_sample_space ==
    /\ pc = "idle"
    /\ \E lo \in GridMinInputs, hi \in GridMaxInputs, nt \in NTrialInputs(MaxPoints) :
          \/ Rejected("uniformly_sample_space", lo * Scale, hi * Scale, nt)
          \/ SampleGrid(lo * Scale, hi * Scale, nt)

\* SeedChain that starts a new list on every call
SeedChainAlways(c, a) == <<a>>

\* the list metropolis_hastings works on: self.chain or [a_current, ]
SeedChain(c, a) == IF c # None THEN c ELSE <<a>>

\* run_mcmc up to the first test of the while loop of metropolis_hastings
EnterMcmc(a_min, a_max, ntrials) ==
    /\ check_inputs(a_min, a_max, ntrials) = "ok"
    /\ Len(chain) + ntrials.val + (IF chain = None THEN 1 ELSE 0) <= MaxChain
    /\ ntrails' = ntrials.val
    /\ \E seed \in uniform(a_min, a_max) :
          /\ a0' = seed
          /\ a_current' = seed
          /\ prob_a_current' = calculate_posterior(seed)
          /\ lchain' = SeedChain(chain, seed)
    /\ trial_num' = 1
    /\ pc' = "loop"
    /\ call' = Call("run_mcmc", a_min, a_max, ntrials, FALSE)
    /\ chain_in' = chain
    /\ UNCHANGED <<data, a_array, posterior, chain, result,
                   a_trial, prob_a_trial, acceptance_prob, u>>

run_mcmc ==
    /\ pc = "idle"
    /\ \E lo \in AMinInputs, hi \in AMaxInputs, nt \in NTrialInputs(MaxTrials) :
          \/ Rejected("run_mcmc", lo * Scale, hi * Scale, nt)
          \/ EnterMcmc(lo * Scale, hi * Scale, nt)

\* proposals drawn from the seed range of the call
ProposalsFromSeedRange == uniform(call.a_min, call.a_max)

\* the proposal of a trial: np.random.uniform(1, 10, size=1)
Proposals == uniform(PropLow * Scale, PropHigh * Scale)

\* Decide that keeps the old posterior when it accepts
DecideStaleProb(k, r, cur, pcur, trial, ptrial) ==
    IF Accepts(k, r) THEN <<trial, pcur>> ELSE <<cur, pcur>>

\* the accept-or-reject decision: the (a_current, prob_a_current) after it
Decide(k, r, cur, pcur, trial, ptrial) ==
    IF Accepts(k, r) THEN <<trial, ptrial>> ELSE <<cur, pcur>>

\* one pass of the while loop of metropolis_hastings
Trial ==
    /\ pc = "loop"
    /\ trial_num <= call.ntrials.val
    /\ \E t \in Proposals, k \in uniform01 :
          /\ a_trial' = t
          /\ prob_a_trial' = calculate_posterior(t)
          /\ acceptance_prob' = Min1(Divide(prob_a_trial', prob_a_current))
          /\ u' = k
          /\ a_current' =
                Decide(k, acceptance_prob', a_current, prob_a_current, t, prob_a_trial')[1]
          /\ prob_a_current' =
                Decide(k, acceptance_prob', a_current, prob_a_current, t, prob_a_trial')[2]
    /\ trial_num' = trial_num + 1
    /\ lchain' = Append(lchain, a_current')
    \* on a resumed chain the local list is self.chain itself
    /\ chain' = IF chain # None THEN lchain' ELSE chain
    /\ UNCHANGED <<data, a_array, posterior, ntrails, pc, call, result, chain_in, a0>>

\* the loop ends, metropolis_hastings returns and run_mcmc stores the list
Return ==
    /\ pc = "loop"
    /\ ~(trial_num <= call.ntrials.val)
    /\ chain' = lchain
    /\ pc' = "idle"
    /\ result' = "ok"
    /\ ClearLocals
    /\ UNCHANGED <<data, a_array, posterior, ntrails, call, chain_in>>

\* restart_chain that leaves the chain in place
restart_chain_keeps ==
    /\ pc = "idle"
    /\ chain' = chain
    /\ call' = Call("restart_chain", 0, 0, NoTrials, FALSE)
    /\ result' = "ok"
    /\ chain_in' = chain
    /\ UNCHANGED <<data, a_array, posterior, ntrails, pc, locals>>

\* restart_chain
restart_chain ==
    /\ pc = "idle"
    /\ chain' = None
    /\ call' = Call("restart_chain", 0, 0, NoTrials, FALSE)
    /\ result' = "ok"
    /\ chain_in' = chain
    /\ UNCHANGED <<data, a_array, posterior, ntrails, pc, locals>>

\* PlotResults with an uninitialized chain plotted as an empty one
PlotResultsLenient(mcmc) ==
    IF mcmc
    THEN (IF chain = None THEN {"ok"} ELSE {"ok", "ValueError"})
    ELSE (IF a_array = None THEN {"ValueError"} ELSE {"ok"})

\* how plot(mcmc) ends. mcmc=False hands self.a_array and self.posterior to
\* ax.plot, which raises ValueError for None; mcmc=True takes len(self.chain),
\* a TypeError for None. A stored chain holds its seed as a one-element array
\* and its other entries as floats, which ax.plot accepts or rejects
\* (ValueError) depending on the numpy version.
PlotResults(mcmc) ==
    IF mcmc
    THEN (IF chain = None THEN {"TypeError"} ELSE {"ok", "ValueError"})
    ELSE (IF a_array = None THEN {"ValueError"} ELSE {"ok"})

\* plot
plot ==
    /\ pc = "idle"
    /\ \E mcmc \in BOOLEAN :
          /\ call' = Call("plot", 0, 0, NoTrials, mcmc)
          /\ result' \in PlotResults(mcmc)
    /\ chain_in' = chain
    /\ UNCHANGED <<persistent, pc, locals>>

Next ==
    \/ uniformly_sample_space
    \/ run_mcmc
    \/ Trial
    \/ Return
    \/ restart_chain
    \/ plot

Spec == Init /\ [][Next]_vars

\* ------------------------------------------------------------------ claims
Last(s) == s[Len(s)]
IsPrefix(s, t) == Len(s) <= Len(t) /\ \A i \in 1..Len(s) : s[i] = t[i]
InProposalRange(a) == PropLow * Scale <= a /\ a <= PropHigh * Scale
Samplers == {"uniformly_sample_space", "run_mcmc"}
\* a run_mcmc call has returned normally and nothing was called since
RanMcmc == pc = "idle" /\ call.op = "run_mcmc" /\ result = "ok"
\* the step is one pass of the trial loop
TrialStep == pc = "loop" /\ pc' = "loop" /\ trial_num' # trial_num
\* the length of the list a run starts its trials with
LenAtEntry == IF chain_in = None THEN 1 ELSE Len(chain_in)

ResumeContinues ==
    /\ (pc = "loop" /\ chain_in # None /\ trial_num = 1) =>
          /\ a_current = Last(chain_in)
          /\ prob_a_current = calculate_posterior(Last(chain_in))
    /\ (pc = "loop" /\ trial_num > 1) =>
          Last(lchain) =
              IF Accepts(u, acceptance_prob) THEN a_trial
              ELSE lchain[Len(lchain) - 1]

\* C3. Acceptance bound as claimed: every chain entry after the seed entry at
\* index 0 lies in [1, 10].
AcceptanceBound ==
    /\ \A i \in 2..Len(chain) : InProposalRange(chain[i])
    /\ \A i \in 2..Len(lchain) : InProposalRange(lchain[i])

\* C3 amended. Every entry the trials of a run_mcmc call append lies in
\* [1, 10] or equals the seed that call drew from [a_min, a_max).
AcceptanceBoundAmended ==
    pc = "loop" =>
        /\ call.a_min <= a0 /\ a0 < call.a_max
        /\ Len(lchain) >= trial_num
        /\ \A i \in (Len(lchain) - trial_num + 2)..Len(lchain) :
              InProposalRange(lchain[i]) \/ lchain[i] = a0

\* C3 witness: a trial has appended a repeat of a seed that lies above 10.
AcceptanceBoundWitness ==
    /\ pc = "loop" /\ trial_num > 1
    /\ ~InProposalRange(a0)
    /\ Last(lchain) = a0

DegenerateIsFailure ==
    [][(pc = "loop" /\ trial_num <= call.ntrials.val /\ prob_a_current = 0)
          => (pc' = "idle" /\ result' # "ok")]_vars

\* C6. Validation is immediate and atomic: a sampler call that raises the
\* validation error changes neither the grid, the chain nor any other stored
\* attribute and starts no sampling, and every sampler call that does not
\* raise it had a_min > 1, a_min < a_max and a positive integer trial count.
ValidationAtomic ==
    [][(pc = "idle" /\ call'.op \in Samplers /\ <<call, result, pc>>' # <<call, result, pc>>) =>
          IF pc' = "idle" /\ result' \in AssertionErrors
          THEN UNCHANGED <<data, a_array, posterior, chain, ntrails, locals>>
          ELSE /\ call'.a_min > 1 * Scale
               /\ call'.a_min < call'.a_max
               /\ call'.ntrials.isint /\ call'.ntrials.val >= 1]_vars

\* C6 witness: run_mcmc was rejected for its trial count while a grid and a
\* chain were stored.
ValidationWitness ==
    /\ pc = "idle" /\ call.op = "run_mcmc"
    /\ result = "AssertionError: ntrails must be a positive integer"
    /\ chain # None /\ a_array # None

\* the grid checks shared by C7 as claimed and C7 amended
GridShape(n) ==
    /\ Len(a_array) = n /\ Len(posterior) = n
    /\ \A k \in 1..(n - 1) : a_array[k] < a_array[k + 1]
    /\ \A k \in 1..(n - 2) : a_array[k + 1] - a_array[k] = a_array[k + 2] - a_array[k + 1]
    /\ a_array[1] = call.a_min
    /\ \A k \in 1..n : posterior[k] = calculate_posterior(a_array[k])
Sampled == pc = "idle" /\ call.op = "uniformly_sample_space" /\ result = "ok"

PlotNeedsArtifact ==
    [][(pc = "idle" /\ call'.op = "plot") =>
          /\ UNCHANGED <<data, a_array, posterior, chain, ntrails>>
          /\ (call'.mcmc /\ chain = None) => result' # "ok"
          /\ (~call'.mcmc /\ a_array = None) => result' # "ok"]_vars

\* C8 witness: a chain-mode plot has failed after restart_chain left no chain
\* while a grid was stored.
PlotWitness ==
    /\ pc = "idle" /\ call.op = "plot" /\ call.mcmc
    /\ chain = None /\ a_array # None
    /\ result = "TypeError"

\* C9. Step rule: prob_a_current is the posterior of a_current at the start
\* of every trial; a trial accepts exactly when u <= min(1, p_trial/p_current)
\* (where p_current is not zero), on acceptance takes the proposal and its
\* posterior, on rejection keeps both, and appends a_current after the
\* decision, one entry per trial; the loop ends after exactly ntrials trials.
StepRule ==
    /\ [](pc = "loop" =>
            /\ prob_a_current = calculate_posterior(a_current)
            /\ trial_num \in 1..(call.ntrials.val + 1)
            /\ Len(lchain) = LenAtEntry + trial_num - 1)
    /\ [][TrialStep =>
            /\ trial_num' = trial_num + 1
            /\ prob_a_trial' = calculate_posterior(a_trial')
            /\ lchain' = Append(lchain, a_current')
            /\ prob_a_current # 0 =>
                  /\ acceptance_prob'.n * prob_a_current =
                        acceptance_prob'.d *
                            (IF prob_a_trial' >= prob_a_current THEN prob_a_current
                             ELSE prob_a_trial')
                  /\ IF u' * acceptance_prob'.d <= acceptance_prob'.n * UDen
                     THEN a_current' = a_trial' /\ prob_a_current' = prob_a_trial'
                     ELSE a_current' = a_current /\ prob_a_current' = prob_a_current]_vars
    /\ [][(pc = "loop" /\ pc' = "idle") => trial_num = call.ntrials.val + 1]_vars

\* C9 witness: a trial has accepted a proposal with a ratio strictly between
\* 0 and 1.
StepRuleWitness ==
    /\ pc = "loop" /\ trial_num > 1
    /\ acceptance_prob.n > 0 /\ acceptance_prob.n < acceptance_prob.d
    /\ a_current = a_trial /\ a_current # a0

\* C10. Chain ownership and append-only frame: the observation set never
\* changes; the chain changes only by run_mcmc appending to it (the stored
\* entries staying as a prefix) and by restart_chain clearing it; the grid
\* result changes only by uniformly_sample_space.
FrameRule ==
    [][/\ data' = data
       /\ chain' # chain =>
             \/ call'.op = "run_mcmc" /\ IsPrefix(chain, chain') /\ chain' # None
             \/ call'.op = "restart_chain" /\ chain' = None
       /\ <<a_array, posterior>>' # <<a_array, posterior>> =>
             call'.op = "uniformly_sample_space"]_vars

\* C10 witness: uniformly_sample_space has stored a one-point grid while a
\* chain was stored, and the chain is as it was.
FrameWitness ==
    /\ Sampled /\ chain # None /\ chain = chain_in
    /\ Len(a_array) = 1 /\ ntrails = 1

====
